---- MODULE Spec2Model ----
\* A model of package xpath's compile facade (Compile, CompileWithNS,
\* CompileWithOptions, CompileWithOptionsAndNS, MustCompile, Select) and of
\* its evaluation surface (Expr.Select, Expr.Evaluate, Expr.String,
\* NodeIterator.MoveNext, NodeIterator.Current).
\*
\* xpath.go is translated statement by statement.  The tokenizer, the parser,
\* the builder and the query operators live in other files of the package;
\* they are modelled for a small sub-language (numbers, '+', child steps by
\* name, prefixed names, variable references) over a fixed six-node tree.
EXTENDS Integers, Sequences, FiniteSets, TLC

VARIABLES
    call,      \* the last call made to the compile facade, with its outcome
    expr,      \* the compiled expression the caller holds (evaluation runs)
    how,       \* which entry point produced expr
    cursors,   \* cursor objects: object id -> position in the tree
    iters,     \* the NodeIterators the caller holds
    out,       \* what the caller got back from its last Evaluate / String call
    lastMove,  \* what the last NodeIterator.MoveNext did
    rootStart  \* where the caller's cursor stood before any evaluation

vars == <<call, expr, how, cursors, iters, out, lastMove, rootStart>>

\* ---------------------------------------------------------------- bounds
MaxLen == 3      \* longest expression text given to the compile facade, in characters
MaxIters == 2    \* NodeIterators the caller holds at once

\* ------------------------------------------------------ expression texts
\* An expression text is a sequence of characters.  "é" stands for a name
\* character that takes two bytes in UTF-8, "?" for a character no token
\* starts with.
Alphabet == {"1", " ", "+", "$", "a", ":", "?", "é"}

Texts == UNION {[1..n -> Alphabet] : n \in 0..MaxLen}

Size(c) == IF c = "é" THEN 2 ELSE 1

RECURSIVE ByteLen(_)
ByteLen(t) == IF t = <<>> THEN 0 ELSE Size(Head(t)) + ByteLen(Tail(t))

isDigit(c) == c = "1"
isName(c) == c \in {"a", "é"}
NUL == "NUL"

\* --------------------------------------------------------------- queries
\* A query operator: its static plan (k, v, name, prefix, kids) and its
\* iteration state (started, pending).
NoNode == 0 - 1

Query(k, v, name, prefix, kids) ==
    [k |-> k, v |-> v, name |-> name, prefix |-> prefix, kids |-> kids,
     started |-> FALSE, pending |-> <<>>]

NilQ == Query("nil", 0, <<>>, <<>>, <<>>)
nopQuery == Query("nop", 0, <<>>, <<>>, <<>>)
constantQuery(v) == Query("num", v, <<>>, <<>>, <<>>)
childQuery(prefix, name) == Query("child", 0, name, prefix, <<>>)
numericQuery(l, r) == Query("plus", 0, <<>>, <<>>, <<l, r>>)

\* The one element of a one-element set.  Operators below bind their
\* intermediate results with  Only({ F(x) : x \in {e} })  so that e is
\* evaluated once.
Only(S) == CHOOSE x \in S : TRUE

\* -------------------------------------------------------------- tokenizer
\* scanner: text, pos (bytes read), idx (characters read), curr (the
\* lookahead character), currSize (byte size of the last character read),
\* typ / name / prefix / numval (the current token), panic (a lexical or
\* syntax failure, "" when none).
newScanner(text) ==
    [text |-> text, pos |-> 0, idx |-> 0, curr |-> NUL, currSize |-> 0,
     typ |-> "none", name |-> <<>>, prefix |-> <<>>, numval |-> 0, panic |-> ""]

nextChar(s0) ==
    Only({ IF s.idx >= Len(s.text)
           THEN [s EXCEPT !.curr = NUL]
           ELSE [s EXCEPT !.curr = s.text[s.idx + 1],
                          !.currSize = Size(s.text[s.idx + 1]),
                          !.pos = s.pos + Size(s.text[s.idx + 1]),
                          !.idx = s.idx + 1]
           : s \in {s0} })

RECURSIVE skipSpace(_)
skipSpace(s0) ==
    Only({ IF s.curr # " " THEN s
           ELSE IF s.idx >= Len(s.text) THEN nextChar(s)
           ELSE skipSpace(nextChar(s))
           : s \in {s0} })

RECURSIVE scanNumber(_, _)
scanNumber(s0, acc) ==
    Only({ IF isDigit(s.curr)
           THEN scanNumber(nextChar(s), acc * 10 + 1)
           ELSE [s EXCEPT !.numval = acc]
           : s \in {s0} })

RECURSIVE scanName(_, _)
scanName(s0, acc) ==
    Only({ IF isName(s.curr)
           THEN scanName(nextChar(s), Append(acc, s.curr))
           ELSE [s EXCEPT !.name = acc]
           : s \in {s0} })

\* The name token that starts at s.curr: "foo", "foo:bar" or "foo::".
scanQName(s) ==
    Only({ IF n.curr # ":" THEN n
           ELSE Only({ IF c.curr = ":" THEN [nextChar(c) EXCEPT !.typ = "axis"]
                       ELSE IF isName(c.curr)
                            THEN scanName([c EXCEPT !.prefix = n.name], <<>>)
                            ELSE [c EXCEPT !.panic = "invalid qualified name"]
                       : c \in {nextChar(n)} })
           : n \in {[scanName(s, <<>>) EXCEPT !.typ = "name", !.prefix = <<>>]} })

nextItem(s0) ==
    Only({ IF s.panic # "" THEN s
           ELSE CASE s.curr = NUL -> [s EXCEPT !.typ = "EOF"]
                  [] s.curr \in {"+", "$"} -> [nextChar(s) EXCEPT !.typ = s.curr]
                  [] isDigit(s.curr) -> [scanNumber(s, 0) EXCEPT !.typ = "number"]
                  [] isName(s.curr) -> scanQName(s)
                  [] OTHER -> [s EXCEPT !.panic = "invalid token"]
           : s \in {IF s0.panic # "" THEN s0 ELSE skipSpace(s0)} })

\* ----------------------------------------------------------------- parser
\* The parser emits query operators directly; a variable reference has no
\* operator (NilQ), and an operator with an operand that has none has none.
\* A parse result is [r |-> scanner, q |-> query].
parseVariable(r0) ==
    Only({ IF r1.panic # "" THEN [r |-> r1, q |-> NilQ]
           ELSE IF r1.typ # "name"
                THEN [r |-> [r1 EXCEPT !.panic = "expected a name"], q |-> NilQ]
                ELSE [r |-> nextItem(r1), q |-> NilQ]
           : r1 \in {nextItem(r0)} })

parsePrimary(r0, ns) ==
    Only({ CASE r.panic # "" -> [r |-> r, q |-> NilQ]
             [] r.typ = "number" -> [r |-> nextItem(r), q |-> constantQuery(r.numval)]
             [] r.typ = "$" -> parseVariable(r)
             [] r.typ = "name" ->
                   IF r.prefix # <<>> /\ r.prefix \notin ns
                   THEN [r |-> [r EXCEPT !.panic = "prefix not defined"], q |-> NilQ]
                   ELSE [r |-> nextItem(r), q |-> childQuery(r.prefix, r.name)]
             [] OTHER -> [r |-> [r EXCEPT !.panic = "unexpected token"], q |-> NilQ]
           : r \in {r0} })

RECURSIVE parseAdditive(_, _)
parseAdditive(left0, ns) ==
    Only({ IF left.r.panic # "" \/ left.r.typ # "+" THEN left
           ELSE Only({ parseAdditive(
                          [r |-> right.r,
                           q |-> IF left.q = NilQ \/ right.q = NilQ THEN NilQ
                                 ELSE numericQuery(left.q, right.q)],
                          ns)
                       : right \in {parsePrimary(nextItem(left.r), ns)} })
           : left \in {left0} })

parse(text, ns) ==
    parseAdditive(parsePrimary(nextItem(nextChar(newScanner(text))), ns), ns)

\* build(expr, namespaces) -> (q, p, err): a panic of the tokenizer or the
\* parser is recovered and returned as err, with no parser and no operator.
build(text, ns) ==
    Only({ IF p.r.panic # ""
           THEN [q |-> NilQ, hasP |-> FALSE, r |-> newScanner(text), err |-> p.r.panic]
           ELSE [q |-> p.q, hasP |-> TRUE, r |-> p.r, err |-> ""]
           : p \in {parse(text, ns)} })

\* --------------------------------------------------------- compile facade
CompileOptions == [StrictEOF : BOOLEAN]
NoOptions == [StrictEOF |-> FALSE]
StrictPreset == [StrictEOF |-> TRUE]

\* Namespace maps, as the set of prefixes they declare; the nil map declares none.
NilNS == {}
NsMaps == {NilNS, {<<"a">>}}

\* *Expr: nil, or an Expr{s, q}.
NilExpr == [nil |-> TRUE, s |-> <<>>, q |-> NilQ]
Expr(s, q) == [nil |-> FALSE, s |-> s, q |-> q]

\* One return of a compile entry point: (expr, err), whether it panicked
\* instead of returning, whether build was invoked, and for the strict-mode
\* error the byte offset its message is cut at.
Ret(e, err, built) ==
    [expr |-> e, err |-> err, at |-> 0, panicked |-> FALSE, built |-> built]

\* The error messages of CompileWithOptionsAndNS (without their arguments).
ErrEmpty == "expr expression is nil"
ErrTrailing == "unexpected token after end of expression"
ErrUndeclared == "undeclared variable in XPath expression"

\* p.r.text[i:] panics when i is outside 0..len(p.r.text).
SliceFromPanics(text, i) == i < 0 \/ i > ByteLen(text)

\* Faulty variants of CompileWithOptionsAndNS, used to test the properties
\* below: one that never looks at opts.StrictEOF, one without the
\* empty-text check, one without the nil-operator check.
CompileIgnoringStrictEOF(text, opts, namespaces) ==
    IF text = <<>>
    THEN Ret(NilExpr, ErrEmpty, FALSE)
    ELSE Only({
            IF b.err # "" THEN Ret(NilExpr, b.err, TRUE)
            ELSE IF b.q = NilQ
                 THEN Ret(NilExpr, ErrUndeclared, TRUE)
            ELSE Ret(Expr(text, b.q), "", TRUE)
            : b \in {build(text, namespaces)} })

CompileWithoutEmptyCheck(text, opts, namespaces) ==
    Only({
        IF b.err # "" THEN Ret(NilExpr, b.err, TRUE)
        ELSE IF opts.StrictEOF /\ b.hasP /\ b.r.typ # "EOF"
             THEN IF SliceFromPanics(b.r.text, b.r.pos - b.r.currSize - 1)
                  THEN [Ret(NilExpr, "", TRUE)
                           EXCEPT !.panicked = TRUE, !.at = b.r.pos - b.r.currSize - 1]
                  ELSE [Ret(NilExpr, ErrTrailing, TRUE)
                           EXCEPT !.at = b.r.pos - b.r.currSize - 1]
        ELSE IF b.q = NilQ
             THEN Ret(NilExpr, ErrUndeclared, TRUE)
        ELSE Ret(Expr(text, b.q), "", TRUE)
        : b \in {build(text, namespaces)} })

CompileWithoutNilCheck(text, opts, namespaces) ==
    IF text = <<>>
    THEN Ret(NilExpr, ErrEmpty, FALSE)
    ELSE Only({
            IF b.err # "" THEN Ret(NilExpr, b.err, TRUE)
            ELSE IF opts.StrictEOF /\ b.hasP /\ b.r.typ # "EOF"
                 THEN IF SliceFromPanics(b.r.text, b.r.pos - b.r.currSize - 1)
                      THEN [Ret(NilExpr, "", TRUE)
                               EXCEPT !.panicked = TRUE, !.at = b.r.pos - b.r.currSize - 1]
                      ELSE [Ret(NilExpr, ErrTrailing, TRUE)
                               EXCEPT !.at = b.r.pos - b.r.currSize - 1]
            ELSE Ret(Expr(text, b.q), "", TRUE)
            : b \in {build(text, namespaces)} })

CompileWithOptionsAndNS(text, opts, namespaces) ==
    IF text = <<>>
    THEN Ret(NilExpr, ErrEmpty, FALSE)
    ELSE Only({
            IF b.err # "" THEN Ret(NilExpr, b.err, TRUE)
            ELSE IF opts.StrictEOF /\ b.hasP /\ b.r.typ # "EOF"
                 THEN IF SliceFromPanics(b.r.text, b.r.pos - b.r.currSize - 1)
                      THEN [Ret(NilExpr, "", TRUE)
                               EXCEPT !.panicked = TRUE, !.at = b.r.pos - b.r.currSize - 1]
                      ELSE [Ret(NilExpr, ErrTrailing, TRUE)
                               EXCEPT !.at = b.r.pos - b.r.currSize - 1]
            ELSE IF b.q = NilQ
                 THEN Ret(NilExpr, ErrUndeclared, TRUE)
            ELSE Ret(Expr(text, b.q), "", TRUE)
            : b \in {build(text, namespaces)} })

Compile(text) == CompileWithOptionsAndNS(text, NoOptions, NilNS)

CompileWithNS(text, namespaces) == CompileWithOptionsAndNS(text, NoOptions, namespaces)

CompileWithOptions(text, opts) == CompileWithOptionsAndNS(text, opts, NilNS)

\* Faulty variants of MustCompile: one that panics with the error, as the
\* package-level Select does, and one that hands back Compile's nil.
MustCompilePanicking(text) ==
    Only({ IF c.panicked \/ c.err # "" THEN [c EXCEPT !.panicked = TRUE] ELSE c
           : c \in {Compile(text)} })

MustCompileReturningNil(text) == Compile(text)

\* MustCompile returns an *Expr only; a panic inside Compile passes through.
MustCompile(text) ==
    Only({ IF c.panicked THEN c
           ELSE IF c.err # "" THEN [c EXCEPT !.expr = Expr(text, nopQuery), !.err = ""]
           ELSE c
           : c \in {Compile(text)} })

\* ------------------------------------------------------------ host tree
\* The document the cursors navigate: the root node 0, its element r (1),
\* r's children a (2), b (3), a (4), and 2's child a (5).  Node ids follow
\* document order.
Nodes == {0, 1, 2, 3, 4, 5}

Parent(n) == CASE n = 1 -> 0 [] n \in {2, 3, 4} -> 1 [] n = 5 -> 2 [] OTHER -> NoNode

LocalName(n) ==
    CASE n = 1 -> <<"r">> [] n = 3 -> <<"b">> [] n \in {2, 4, 5} -> <<"a">> [] OTHER -> <<>>

Prefix(n) == <<>>

\* ------------------------------------------------------ query operators
\* The nodes a child step yields from context node ctx, in document order,
\* restricted to node ids >= from.
RECURSIVE childMatches(_, _, _)
childMatches(q, ctx, from) ==
    IF from \notin Nodes THEN <<>>
    ELSE IF Parent(from) = ctx /\ LocalName(from) = q.name /\ Prefix(from) = q.prefix
         THEN <<from>> \o childMatches(q, ctx, from + 1)
         ELSE childMatches(q, ctx, from + 1)

\* query.Select(t): the next match, or none; a step reads the context node
\* t.Current() on its first call and then walks its own copy of it.
querySelect(q0, ctx) ==
    Only({ IF q.k = "child"
           THEN Only({ IF q1.pending = <<>>
                       THEN [q |-> q1, n |-> NoNode]
                       ELSE [q |-> [q1 EXCEPT !.pending = Tail(q1.pending)],
                             n |-> Head(q1.pending)]
                       : q1 \in {IF q.started THEN q
                                 ELSE [q EXCEPT !.started = TRUE,
                                                !.pending = childMatches(q, ctx, 0)]} })
           ELSE [q |-> q, n |-> NoNode]
           : q \in {q0} })

\* Values: a node-set (the query itself), a number (possibly NaN), or nil.
QueryValue == [kind |-> "query", num |-> 0, nan |-> FALSE]
NumberValue(v) == [kind |-> "number", num |-> v, nan |-> FALSE]
NaNValue == [kind |-> "number", num |-> 0, nan |-> TRUE]
NilValue == [kind |-> "nil", num |-> 0, nan |-> FALSE]

\* query.Evaluate(t): a step restarts its traversal and is its own node-set
\* value; '+' coerces both operands to numbers, a node-set operand by
\* taking its first node (no node of the tree has a numeric string-value).
\* asNumber(t, v): the operand's operator after the coercion, and the number.
asNumber(ev, ctx) ==
    IF ev.val.kind = "query"
    THEN [q |-> querySelect(ev.q, ctx).q, val |-> NaNValue]
    ELSE IF ev.val.kind = "number" THEN ev
    ELSE [q |-> ev.q, val |-> NaNValue]

RECURSIVE queryEvaluate(_, _)
queryEvaluate(q0, ctx) ==
    Only({ CASE q.k = "child" ->
                  [q |-> [q EXCEPT !.started = FALSE, !.pending = <<>>], val |-> QueryValue]
             [] q.k = "num" -> [q |-> q, val |-> NumberValue(q.v)]
             [] q.k = "plus" ->
                  Only({ [q |-> [q EXCEPT !.kids = <<l.q, r.q>>],
                          val |-> IF l.val.nan \/ r.val.nan THEN NaNValue
                                  ELSE NumberValue(l.val.num + r.val.num)]
                         : l \in {asNumber(queryEvaluate(q.kids[1], ctx), ctx)},
                           r \in {asNumber(queryEvaluate(q.kids[2], ctx), ctx)} })
             [] OTHER -> [q |-> q, val |-> NilValue]
           : q \in {q0} })

\* query.Clone(): the same plan with a private, fresh iteration state.
RECURSIVE queryClone(_)
queryClone(q) ==
    [q EXCEPT !.started = FALSE, !.pending = <<>>,
              !.kids = [i \in DOMAIN q.kids |-> queryClone(q.kids[i])]]

\* ----------------------------------------------------------- evaluation
\* Cursor objects: the caller's cursor, and for each iterator slot the copy
\* MoveNext may have to make.
CallerCursor == 0
CursorIds == 0..MaxIters

\* A NodeIterator{node, query}: node is a reference to a cursor object.
NodeIterator(node, query) == [node |-> node, query |-> query]

Current(t) == t.node

\* A faulty variant of MoveNext that ignores what MoveTo reports.
MoveNextIgnoringMoveTo(t, cur, moveTo, fresh) ==
    Only({ IF sel.n = NoNode
           THEN [t |-> [t EXCEPT !.query = sel.q], cur |-> cur, ret |-> FALSE]
           ELSE [t |-> [t EXCEPT !.query = sel.q],
                 cur |-> IF moveTo THEN [cur EXCEPT ![t.node] = sel.n] ELSE cur,
                 ret |-> TRUE]
           : sel \in {querySelect(t.query, cur[Current(t)])} })

\* NodeIterator.MoveNext on iterator t, with cur the cursor objects, moveTo
\* what t.node.MoveTo(n) reports and fresh the object n.Copy() allocates.
MoveNext(t, cur, moveTo, fresh) ==
    Only({ IF sel.n = NoNode
           THEN [t |-> [t EXCEPT !.query = sel.q], cur |-> cur, ret |-> FALSE]
           ELSE IF moveTo
                THEN [t |-> [t EXCEPT !.query = sel.q],
                      cur |-> [cur EXCEPT ![t.node] = sel.n], ret |-> TRUE]
                ELSE [t |-> [t EXCEPT !.query = sel.q, !.node = fresh],
                      cur |-> [cur EXCEPT ![fresh] = sel.n], ret |-> TRUE]
           : sel \in {querySelect(t.query, cur[Current(t)])} })

\* Expr.Select(root).
ExprSelect(e, root) == NodeIterator(root, queryClone(e.q))

\* A faulty variant of Expr.Evaluate without the type switch: it returns
\* the root operator's value whatever its kind.
ExprEvaluateWithoutSwitch(e, root, cur) ==
    Only({ [q |-> ev.q,
            isIter |-> FALSE,
            it |-> NodeIterator(root, queryClone(ev.q)),
            val |-> ev.val]
           : ev \in {queryEvaluate(e.q, cur[root])} })

\* Expr.Evaluate(root): q is expr.q after the call, isIter whether the
\* result is a *NodeIterator (it) or the value val.
ExprEvaluate(e, root, cur) ==
    Only({ [q |-> ev.q,
            isIter |-> ev.val.kind = "query",
            it |-> NodeIterator(root, queryClone(ev.q)),
            val |-> ev.val]
           : ev \in {queryEvaluate(e.q, cur[root])} })

\* Expr.String().
String(e) == e.s

\* The package-level Select(root, expr): panics with Compile's error.
Select(root, text) ==
    Only({ IF c.err # "" \/ c.panicked
           THEN [panicked |-> TRUE, err |-> c.err, it |-> NodeIterator(root, NilQ)]
           ELSE [panicked |-> FALSE, err |-> "", it |-> ExprSelect(c.expr, root)]
           : c \in {Compile(text)} })

\* ------------------------------------------------------------- the state
Slots == 1..MaxIters

NoIter ==
    [live |-> FALSE, via |-> "none", node |-> CallerCursor, query |-> NilQ,
     start |-> NoNode, yielded |-> <<>>, done |-> FALSE]

NewIter(it, via, start) ==
    [live |-> TRUE, via |-> via, node |-> it.node, query |-> it.query,
     start |-> start, yielded |-> <<>>, done |-> FALSE]

NoCall ==
    [entry |-> "none", text |-> <<>>, opts |-> NoOptions, ns |-> NilNS,
     ret |-> Ret(NilExpr, "", FALSE), it |-> NodeIterator(CallerCursor, NilQ)]

Called(entry, text, opts, ns, ret) ==
    [entry |-> entry, text |-> text, opts |-> opts, ns |-> ns,
     ret |-> ret, it |-> NodeIterator(CallerCursor, NilQ)]

NoOut ==
    [op |-> "none", isIter |-> FALSE, slot |-> 0, val |-> NilValue, s |-> <<>>,
     ctx |-> NoNode]

NoMove ==
    [slot |-> 0, ret |-> FALSE, moveTo |-> FALSE,
     prevNode |-> CallerCursor, prevPos |-> NoNode, prevQuery |-> NilQ]

InitAt(p) ==
    /\ call = NoCall
    /\ expr = NilExpr
    /\ how = "none"
    /\ cursors = [c \in CursorIds |-> IF c = CallerCursor THEN p ELSE NoNode]
    /\ iters = [i \in Slots |-> NoIter]
    /\ out = NoOut
    /\ lastMove = NoMove
    /\ rootStart = p

\* ---------------------------------------------- the compile facade, called
\* Each behaviour makes one call to one entry point with one input.
evalVars == <<expr, how, cursors, iters, out, lastMove, rootStart>>

CallCompile ==
    /\ call.entry = "none"
    /\ \E text \in Texts :
          call' = Called("Compile", text, NoOptions, NilNS, Compile(text))
    /\ UNCHANGED evalVars

CallCompileWithNS ==
    /\ call.entry = "none"
    /\ \E text \in Texts, ns \in NsMaps :
          call' = Called("CompileWithNS", text, NoOptions, ns, CompileWithNS(text, ns))
    /\ UNCHANGED evalVars

CallCompileWithOptions ==
    /\ call.entry = "none"
    /\ \E text \in Texts, opts \in CompileOptions :
          call' = Called("CompileWithOptions", text, opts, NilNS,
                         CompileWithOptions(text, opts))
    /\ UNCHANGED evalVars

CallCompileWithOptionsAndNS ==
    /\ call.entry = "none"
    /\ \E text \in Texts, opts \in CompileOptions, ns \in NsMaps :
          call' = Called("CompileWithOptionsAndNS", text, opts, ns,
                         CompileWithOptionsAndNS(text, opts, ns))
    /\ UNCHANGED evalVars

CallMustCompile ==
    /\ call.entry = "none"
    /\ \E text \in Texts :
          call' = Called("MustCompile", text, NoOptions, NilNS, MustCompile(text))
    /\ UNCHANGED evalVars

\* Select(root, text) with root the caller's cursor: ret keeps the error it
\* panicked with, it the iterator it returned.
CallSelect ==
    /\ call.entry = "none"
    /\ \E text \in Texts :
          \E r \in {Select(CallerCursor, text)} :
             call' = [Called("Select", text, NoOptions, NilNS,
                             Ret(NilExpr, r.err, text # <<>>))
                         EXCEPT !.ret.panicked = r.panicked, !.it = r.it]
    /\ UNCHANGED evalVars

InitCompile == InitAt(1)

NextCompile ==
    \/ CallCompile
    \/ CallCompileWithNS
    \/ CallCompileWithOptions
    \/ CallCompileWithOptionsAndNS
    \/ CallMustCompile
    \/ CallSelect

SpecCompile == InitCompile /\ [][NextCompile]_vars

\* ------------------------------------------------- evaluation, step by step
\* The expression texts the evaluation runs are compiled from.
SampleTexts ==
    {<<>>, <<"a">>, <<"1">>, <<"1", "+", "1">>, <<"a", "+", "1">>, <<"$", "a">>,
     <<"?">>, <<"a", " ", "1">>, <<"a", ":", "a">>, <<"r">>}

FreeSlots == {i \in Slots : ~iters[i].live}
FirstFree == CHOOSE i \in FreeSlots : \A j \in FreeSlots : i <= j

\* expr, err := CompileWithOptionsAndNS(...); the caller keeps expr on success.
DoCompile ==
    /\ how = "none"
    /\ \E text \in SampleTexts, opts \in CompileOptions, ns \in NsMaps :
          \E c \in {CompileWithOptionsAndNS(text, opts, ns)} :
             /\ call' = Called("CompileWithOptionsAndNS", text, opts, ns, c)
             /\ expr' = c.expr
             /\ how' = IF c.err = "" /\ ~c.panicked THEN "Compile" ELSE "failed"
    /\ UNCHANGED <<cursors, iters, out, lastMove, rootStart>>

\* expr := MustCompile(...).
DoMustCompile ==
    /\ how = "none"
    /\ \E text \in SampleTexts :
          \E c \in {MustCompile(text)} :
             /\ call' = Called("MustCompile", text, NoOptions, NilNS, c)
             /\ expr' = c.expr
             /\ how' = IF c.panicked THEN "failed" ELSE "MustCompile"
    /\ UNCHANGED <<cursors, iters, out, lastMove, rootStart>>

\* it := expr.Select(root), root the caller's cursor.
DoSelect ==
    /\ ~expr.nil
    /\ FreeSlots # {}
    /\ iters' = [iters EXCEPT ![FirstFree] =
                    NewIter(ExprSelect(expr, CallerCursor), "Select", cursors[CallerCursor])]
    /\ UNCHANGED <<call, expr, how, cursors, out, lastMove, rootStart>>

\* v := expr.Evaluate(root), root the caller's cursor.
DoEvaluate ==
    /\ ~expr.nil
    /\ \E ev \in {ExprEvaluate(expr, CallerCursor, cursors)} :
          /\ ev.isIter => FreeSlots # {}
          /\ expr' = [expr EXCEPT !.q = ev.q]
          /\ iters' = IF ev.isIter
                      THEN [iters EXCEPT ![FirstFree] =
                               NewIter(ev.it, "Evaluate", cursors[CallerCursor])]
                      ELSE iters
          /\ out' = [op |-> "Evaluate", isIter |-> ev.isIter,
                     slot |-> IF ev.isIter THEN FirstFree ELSE 0,
                     val |-> ev.val, s |-> <<>>, ctx |-> cursors[CallerCursor]]
    /\ UNCHANGED <<call, how, cursors, lastMove, rootStart>>

\* s := expr.String().
DoString ==
    /\ ~expr.nil
    /\ out' = [NoOut EXCEPT !.op = "String", !.s = String(expr)]
    /\ UNCHANGED <<call, expr, how, cursors, iters, lastMove, rootStart>>

\* ok := it.MoveNext(), for an iterator the caller holds.
DoMoveNext(i, moveTo) ==
    /\ iters[i].live
    /\ \E m \in {MoveNext(NodeIterator(iters[i].node, iters[i].query), cursors, moveTo, i)} :
          /\ cursors' = m.cur
          /\ iters' = [iters EXCEPT ![i].node = m.t.node, ![i].query = m.t.query,
                                    ![i].yielded = IF m.ret THEN Append(@, m.cur[Current(m.t)])
                                                   ELSE @,
                                    ![i].done = @ \/ ~m.ret]
          /\ lastMove' = [slot |-> i, ret |-> m.ret, moveTo |-> moveTo,
                          prevNode |-> iters[i].node, prevPos |-> cursors[iters[i].node],
                          prevQuery |-> iters[i].query]
    /\ UNCHANGED <<call, expr, how, out, rootStart>>

Init == \E p \in Nodes : InitAt(p)

Next ==
    \/ DoCompile
    \/ DoMustCompile
    \/ DoSelect
    \/ DoEvaluate
    \/ DoString
    \/ \E i \in Slots, moveTo \in BOOLEAN : DoMoveNext(i, moveTo)

Spec == Init /\ [][Next]_vars

\* ------------------------------------------------------------ properties
ErrorReturning == {"Compile", "CompileWithNS", "CompileWithOptions", "CompileWithOptionsAndNS"}

Succeeded(r) == r.err = "" /\ ~r.panicked /\ ~r.expr.nil
Failed(r) == r.err # "" /\ ~r.panicked /\ r.expr.nil

IsPrefix(a, b) == Len(a) <= Len(b) /\ SubSeq(b, 1, Len(a)) = a

\* What an iterator over q yields when it alone is advanced to exhaustion,
\* its cursor starting at ctx and following each match.
RECURSIVE Drain(_, _)
Drain(q, ctx) ==
    Only({ IF sel.n = NoNode THEN <<>> ELSE <<sel.n>> \o Drain(sel.q, sel.n)
           : sel \in {querySelect(q, ctx)} })

\* C1: when build returns a root operator and no error, a compile with
\* StrictEOF=false succeeds whatever token the parser stopped at; with
\* StrictEOF=true it succeeds exactly when that token is the end marker and
\* returns an error otherwise; and with the end marker reached, the strict
\* and the non-strict compile return the same.
C1_StrictEOF ==
    (call.entry = "CompileWithOptionsAndNS" /\ call.text # <<>>) =>
        \A b \in {build(call.text, call.ns)} :
            (b.err = "" /\ b.q # NilQ) =>
                /\ ~call.opts.StrictEOF => Succeeded(call.ret)
                /\ call.opts.StrictEOF => (Succeeded(call.ret) <=> b.r.typ = "EOF")
                /\ (call.opts.StrictEOF /\ b.r.typ # "EOF") => Failed(call.ret)
                /\ b.r.typ = "EOF" =>
                      call.ret = CompileWithOptionsAndNS(
                                    call.text, [StrictEOF |-> ~call.opts.StrictEOF], call.ns)

\* "1 1" compiled under StrictEOF: the trailing "1" is a compile error.
C1_Witness ==
    /\ call.entry = "CompileWithOptionsAndNS"
    /\ call.opts.StrictEOF
    /\ call.text = <<"1", " ", "1">>
    /\ call.ret.err = ErrTrailing
    /\ Succeeded(CompileWithOptionsAndNS(call.text, NoOptions, call.ns))

\* C2: the empty text fails with the empty-expression error through every
\* error-returning entry point, for every options value and namespace map,
\* and build is not invoked.
C2_EmptyExpression ==
    (call.entry \in ErrorReturning /\ call.text = <<>>) =>
        /\ Failed(call.ret)
        /\ call.ret.err = ErrEmpty
        /\ ~call.ret.built

C2_Witness ==
    /\ call.entry = "CompileWithOptionsAndNS"
    /\ call.text = <<>>
    /\ call.opts.StrictEOF
    /\ call.ns # NilNS
    /\ call.ret.err = ErrEmpty

\* C7: every return of CompileWithOptionsAndNS has exactly one of
\* (expression, error) non-nil; the error cases are the empty text, a build
\* error, a token other than the end marker under StrictEOF, and a nil root
\* operator; a returned expression has a root operator and String() equal
\* to the input text.
C7_ExprOrError ==
    (call.entry = "CompileWithOptionsAndNS" /\ ~call.ret.panicked) =>
        /\ call.ret.expr.nil <=> call.ret.err # ""
        /\ call.ret.err # "" <=>
              \/ call.text = <<>>
              \/ \E b \in {build(call.text, call.ns)} :
                    \/ b.err # ""
                    \/ call.opts.StrictEOF /\ b.hasP /\ b.r.typ # "EOF"
                    \/ b.q = NilQ
        /\ ~call.ret.expr.nil =>
              /\ call.ret.expr.q # NilQ
              /\ String(call.ret.expr) = call.text

\* "$a" parses, has no root operator, and is refused.
C7_Witness ==
    /\ call.entry = "CompileWithOptionsAndNS"
    /\ call.text = <<"$", "a">>
    /\ call.ret.err = ErrUndeclared
    /\ call.ret.expr.nil

\* C8, as claimed: no entry point that takes expression text panics on a
\* text that fails to compile.
C8_NoEntryPointPanics ==
    (call.entry # "none"
        /\ ~Succeeded(CompileWithOptionsAndNS(call.text, call.opts, call.ns)))
    => ~call.ret.panicked

\* C8, amended: on a text that fails to compile, the package-level Select
\* panics and no other entry point does (the strict-mode message included).
C8_OnlySelectPanics ==
    (call.entry # "none"
        /\ ~Succeeded(CompileWithOptionsAndNS(call.text, call.opts, call.ns)))
    => (call.ret.panicked <=> call.entry = "Select")

\* The strict-mode message cut at offset 0, the lowest offset the slice allows.
C8_Witness ==
    /\ call.entry \in ErrorReturning
    /\ call.opts.StrictEOF
    /\ call.ret.err = ErrTrailing
    /\ call.ret.at = 0
    /\ ~call.ret.panicked

\* C3, as claimed: the caller's cursor stays where it was when it was
\* handed to Select / Evaluate, however far the iterators are advanced.
C3_CallerCursorStays == cursors[CallerCursor] = rootStart

\* C4, as claimed: when the caller's iterators all come from Select calls
\* made with its cursor at the same starting position, each of them yields
\* what it would yield if it alone were drained from there, whatever the
\* interleaving of their MoveNext calls (so they all yield the same).
C4_IteratorsIndependent ==
    (\A j \in Slots :
        iters[j].live => iters[j].via = "Select" /\ iters[j].start = rootStart)
    => \A i \in Slots :
          iters[i].live =>
             /\ IsPrefix(iters[i].yielded, Drain(queryClone(expr.q), rootStart))
             /\ iters[i].done => iters[i].yielded = Drain(queryClone(expr.q), rootStart)

\* C5, as claimed: the Expr the caller holds is the Expr the compile
\* returned, source text and root operator state alike, after any sequence
\* of Select, Evaluate, String and MoveNext.
C5_ExprImmutable == ~expr.nil => expr = call.ret.expr

\* C6: MustCompile returns an Expr and no error; when Compile fails the
\* Expr holds the original text and the always-empty operator and no
\* iterator over it yields a node; when Compile succeeds it is the Expr
\* Compile returned.
C6_MustCompile ==
    call.entry = "MustCompile" =>
        /\ how = "MustCompile"
        /\ ~call.ret.expr.nil /\ call.ret.err = "" /\ ~call.ret.panicked
        /\ String(expr) = call.text
        /\ \A c \in {Compile(call.text)} :
              /\ ~Succeeded(c) =>
                    /\ expr.q = nopQuery
                    /\ \A i \in Slots : iters[i].yielded = <<>>
                    /\ lastMove.slot # 0 => ~lastMove.ret
              /\ Succeeded(c) => call.ret.expr = c.expr

\* MustCompile("?"), then Select and a MoveNext that came back false.
C6_Witness ==
    /\ call.entry = "MustCompile"
    /\ ~Succeeded(Compile(call.text))
    /\ \E i \in Slots : iters[i].live /\ iters[i].done /\ lastMove.slot = i

\* C9: MoveNext returns false exactly when the query's Select has no
\* further match, and then Current() is the same cursor at the same
\* position; when it returns true Current() is at the match: the held
\* cursor repositioned if MoveTo succeeded, a copy of the match otherwise.
C9_MoveNext ==
    lastMove.slot # 0 =>
        \A sel \in {querySelect(lastMove.prevQuery, lastMove.prevPos)} :
            /\ lastMove.ret <=> sel.n # NoNode
            /\ ~lastMove.ret =>
                  /\ Current(iters[lastMove.slot]) = lastMove.prevNode
                  /\ cursors[lastMove.prevNode] = lastMove.prevPos
            /\ lastMove.ret =>
                  /\ cursors[Current(iters[lastMove.slot])] = sel.n
                  /\ lastMove.moveTo => Current(iters[lastMove.slot]) = lastMove.prevNode
                  /\ (~lastMove.moveTo /\ lastMove.prevNode = CallerCursor) =>
                        /\ Current(iters[lastMove.slot]) # CallerCursor
                        /\ cursors[CallerCursor] = lastMove.prevPos

\* A MoveNext whose MoveTo failed: the iterator holds a copy at the match.
C9_Witness ==
    /\ lastMove.slot # 0
    /\ lastMove.ret
    /\ ~lastMove.moveTo
    /\ lastMove.prevNode = CallerCursor
    /\ cursors[Current(iters[lastMove.slot])] # cursors[CallerCursor]

\* C10: Expr.Evaluate returns a NodeIterator, over a clone of the root
\* operator and at the supplied cursor, exactly when the root operator
\* evaluates to a node-set; otherwise it returns the operator's value.
C10_Evaluate ==
    out.op = "Evaluate" =>
        \A ev \in {queryEvaluate(expr.q, out.ctx)} :
            /\ out.isIter <=> ev.val.kind = "query"
            /\ ~out.isIter => out.val = ev.val /\ out.slot = 0
            /\ out.isIter =>
                  /\ iters[out.slot].live
                  /\ iters[out.slot].via = "Evaluate"
                  /\ iters[out.slot].start = out.ctx
                  /\ queryClone(iters[out.slot].query) = queryClone(expr.q)

\* Evaluate of the step "a": the result is an iterator that then yields.
C10_Witness ==
    /\ out.op = "Evaluate"
    /\ out.isIter
    /\ iters[out.slot].via = "Evaluate"
    /\ iters[out.slot].yielded # <<>>

====
